---- MODULE Spec2Model ----
(***************************************************************************)
(* A model of atlite/resource.py: the Resources class (local turbine and   *)
(* panel files, the registry of known names) and the lookup of wind        *)
(* turbines in the Open Energy Database (OEDB) through the module-level    *)
(* cache _oedb_turbines.                                                   *)
(*                                                                         *)
(* Python values are tagged records ([t |-> "int", v |-> 3]); a Python str *)
(* is a sequence of one-character strings, so that strip, startswith,      *)
(* isdigit, int(), float(), split, translate and the regular-expression    *)
(* search behind pandas' str.contains are computed character by character. *)
(***************************************************************************)
EXTENDS Integers, Sequences, FiniteSets, TLC

VARIABLES
    oedb_turbines,   \* the module global _oedb_turbines: None or a DataFrame
    windturbine_dir, \* config.windturbine_dir: file name -> file content
    solarpanel_dir,  \* config.solarpanel_dir: file name -> file content
    windturbines,    \* self.windturbines: the known turbine names
    solarpanels,     \* self.solarpanels: the known panel names
    last             \* the last call: its arguments, outcome and effects

vars == <<oedb_turbines, windturbine_dir, solarpanel_dir, windturbines, solarpanels, last>>

----------------------------------------------------------------------------
(* Bounds of the model. *)

\* The remote table holds any selection of the rows Row(1) .. Row(NumRows).
NumRows == 3

----------------------------------------------------------------------------
(* Python values and the outcome of a call. *)

None == [t |-> "NoneType"]

PyInt(n) == [t |-> "int", v |-> n]

PyStr(s) == [t |-> "str", v |-> s]

\* A float, kept exact as the fraction num / den.
PyFloat(n, d) == [t |-> "float", num |-> n, den |-> d]

\* The result type of np.mean(..., dtype=int).
NumpyInt(n) == [t |-> "numpy.int64", v |-> n]

PyDict(f) == [t |-> "dict", v |-> f]

\* A list; as an argument, a value that is neither str, int nor dict.
PyList(s) == [t |-> "list", v |-> s]

Return(v) == [kind |-> "return", value |-> v]

Raise(e, m) == [kind |-> "raise", exc |-> e, msg |-> m]

\* dict.get(key): None when the key is missing.
Get(d, k) == IF k \in DOMAIN d.v THEN d.v[k] ELSE None

\* Python truthiness of the values a query or a row field can hold.
Truthy(x) ==
    CASE x.t = "NoneType" -> FALSE
      [] x.t = "str" -> Len(x.v) > 0
      [] x.t = "int" -> x.v # 0
      [] OTHER -> TRUE

----------------------------------------------------------------------------
(* Strings. *)

Digits == <<"0", "1", "2", "3", "4", "5", "6", "7", "8", "9">>

IsDigitChar(c) == \E i \in 1..10 : Digits[i] = c

DigitVal(c) == (CHOOSE i \in 1..10 : Digits[i] = c) - 1

IsSpaceChar(c) == c = " "

Uppers == <<"A", "B", "C", "D", "E", "V", "W", "X">>

Lowers == <<"a", "b", "c", "d", "e", "v", "w", "x">>

\* str.lower() of one character (re.IGNORECASE compares folded characters).
Lower(c) ==
    IF \E i \in 1..Len(Uppers) : Uppers[i] = c
    THEN Lowers[CHOOSE i \in 1..Len(Uppers) : Uppers[i] = c]
    ELSE c

RECURSIVE LStrip(_)
LStrip(s) == IF s # <<>> /\ IsSpaceChar(Head(s)) THEN LStrip(Tail(s)) ELSE s

RECURSIVE RStrip(_)
RStrip(s) ==
    IF s # <<>> /\ IsSpaceChar(s[Len(s)]) THEN RStrip(SubSeq(s, 1, Len(s) - 1)) ELSE s

\* str.strip()
Strip(s) == RStrip(LStrip(s))

\* str.startswith(p)
StartsWith(s, p) == Len(s) >= Len(p) /\ SubSeq(s, 1, Len(p)) = p

\* str.endswith(p)
EndsWith(s, p) == Len(s) >= Len(p) /\ SubSeq(s, Len(s) - Len(p) + 1, Len(s)) = p

\* str.isdigit(): non-empty and digits only.
IsDigit(s) == Len(s) > 0 /\ \A i \in 1..Len(s) : IsDigitChar(s[i])

\* int(s) of a string of digits.
RECURSIVE ParseInt(_)
ParseInt(s) ==
    IF s = <<>> THEN 0
    ELSE 10 * ParseInt(SubSeq(s, 1, Len(s) - 1)) + DigitVal(s[Len(s)])

\* int(x) of an int or of a string of digits.
IntOf(x) == IF x.t = "int" THEN x.v ELSE ParseInt(Strip(x.v))

\* c in s
HasChar(s, c) == \E i \in 1..Len(s) : s[i] = c

\* s.split(sep) for a one-character separator: the pieces between separators.
RECURSIVE Split(_, _)
Split(s, sep) ==
    IF ~HasChar(s, sep) THEN <<s>>
    ELSE LET i == CHOOSE j \in 1..Len(s) :
                      s[j] = sep /\ \A k \in 1..(j - 1) : s[k] # sep
         IN  <<SubSeq(s, 1, i - 1)>> \o Split(SubSeq(s, i + 1, Len(s)), sep)

\* re.search(pat, hay, re.IGNORECASE) for patterns over literals, "." and "|":
\* the pattern is an alternation of sequences of literals and dots (any
\* character); it matches when one alternative matches at some position.
MatchAt(alt, hay, i) ==
    /\ i + Len(alt) - 1 <= Len(hay)
    /\ \A j \in 1..Len(alt) :
           alt[j] = "." \/ Lower(alt[j]) = Lower(hay[i + j - 1])

ReSearch(pat, hay) ==
    LET alts == Split(pat, "|")
    IN  \E a \in 1..Len(alts) : \E i \in 1..(Len(hay) + 1) : MatchAt(alts[a], hay, i)

\* pandas Series.str.contains(pat, case=False): regex=True is the default, so
\* the text is compiled as a regular expression and searched for.
StrContains(hay, pat) == ReSearch(pat, hay)

----------------------------------------------------------------------------
(* Floats and hub heights. *)

\* 10^k
RECURSIVE Pow10(_)
Pow10(k) == IF k = 0 THEN 1 ELSE 10 * Pow10(k - 1)

\* Whether float(s) accepts s (already stripped): digits with at most one
\* decimal point and at least one digit.
IsFloatText(s) ==
    /\ \E i \in 1..Len(s) : IsDigitChar(s[i])
    /\ \A i \in 1..Len(s) : IsDigitChar(s[i]) \/ s[i] = "."
    /\ Cardinality({i \in 1..Len(s) : s[i] = "."}) <= 1

\* float(s) of such a text, as an exact fraction.
ParseFloat(s) ==
    LET parts == Split(s, ".")
        frac == IF Len(parts) > 1 THEN parts[2] ELSE <<>>
    IN  PyFloat(ParseInt(parts[1] \o frac), Pow10(Len(frac)))

\* The cast of a non-negative float to int (numpy casts each element of the
\* array to the accumulator type before adding): truncation.
Trunc(f) == f.num \div f.den

RECURSIVE SumTrunc(_)
SumTrunc(hh) == IF hh = <<>> THEN 0 ELSE Trunc(Head(hh)) + SumTrunc(Tail(hh))

\* np.mean(hh, dtype=int): the elements are added in the integer type and the
\* quotient by their number is converted to that type again.
MeanInt(hh) == NumpyInt(SumTrunc(hh) \div Len(hh))

\* [... for t in HUB_HEIGHT.strip().split(";") if t]: the non-empty pieces.
HubPieces(s) == SelectSeq(Split(Strip(s), ";"), LAMBDA t : t # <<>>)

----------------------------------------------------------------------------
(* Files. *)

YamlSuffix == <<".", "y", "a", "m", "l">>

\* str.translate(str.maketrans({"/": "_", " ": "_", "-": "_"}))
Translate(s) == [i \in 1..Len(s) |-> IF s[i] \in {"/", " ", "-"} THEN "_" ELSE s[i]]

\* f"{manufacturer}_{name}.yaml".translate(...)
Filename(conf) ==
    Translate(conf.v["manufacturer"].v \o <<"_">> \o conf.v["name"].v \o YamlSuffix)

\* pathlib's Path.stem: the name without its last suffix.
Stem(f) ==
    LET dots == {i \in 1..Len(f) : f[i] = "."}
        i == IF dots = {} THEN 0 ELSE CHOOSE d \in dots : \A e \in dots : e <= d
    IN  IF 1 < i /\ i < Len(f) THEN SubSeq(f, 1, i - 1) ELSE f

\* {p.stem: p.stem for p in dir.glob("*.yaml")}
StemDict(dir) ==
    LET stems == {Stem(f) : f \in {g \in DOMAIN dir : EndsWith(g, YamlSuffix)}}
    IN  [n \in stems |-> n]

\* The content yaml.dump leaves for a record can be loaded by yaml.safe_load
\* unless it holds a numpy scalar, which is dumped as a python/object tag.
SafeLoadable(conf) == \A k \in DOMAIN conf.v : conf.v[k].t # "numpy.int64"

----------------------------------------------------------------------------
(* The remote table. *)

OEDB_URL == "https://openenergy-platform.org/api/v0/schema/supply/tables/turbine_library/rows"

\* Rows as the endpoint serves them (the curve fields already JSON-decoded;
\* hub_height is a text column: None or a str). Row(i) has id i.
Row(i) ==
    LET k == ((i - 1) % 5) + 1
    IN  CASE k = 1 ->
               [id |-> i, manufacturer |-> <<"A", "c">>, turbine_type |-> <<"E", "-", "5">>,
                hub_height |-> None, has_power_curve |-> TRUE,
                power_curve_wind_speeds |-> <<0, 10>>, power_curve_values |-> <<0, 800>>,
                source |-> "s1"]
          [] k = 2 ->
               [id |-> i, manufacturer |-> <<"a", "c", " ">>, turbine_type |-> <<"e", "/", "5">>,
                hub_height |-> PyStr(<<"1", "0", "0", ".", "5", ";", "1", "0", "1", ".", "5">>),
                has_power_curve |-> TRUE,
                power_curve_wind_speeds |-> <<0, 10, 20>>,
                power_curve_values |-> <<0, 2300, 2000>>, source |-> "s2"]
          [] k = 3 ->
               [id |-> i, manufacturer |-> <<"B", " ", "w">>, turbine_type |-> <<"V", "9">>,
                hub_height |-> PyStr(<<"9", "0">>), has_power_curve |-> FALSE,
                power_curve_wind_speeds |-> <<>>, power_curve_values |-> <<>>,
                source |-> "s3"]
          [] k = 4 ->
               [id |-> i, manufacturer |-> <<"B", "w">>, turbine_type |-> <<" ", "V", "-", "9">>,
                hub_height |-> PyStr(<<"1", "0", "0", ";", " ", "1", "2", "0">>),
                has_power_curve |-> TRUE,
                power_curve_wind_speeds |-> <<0, 10>>, power_curve_values |-> <<0, 3000>>,
                source |-> "s4"]
          [] OTHER ->
               [id |-> i, manufacturer |-> <<"C", "d">>, turbine_type |-> <<"E", ".", "5">>,
                hub_height |-> PyStr(<<"1", "0", "0", ";", "1", "0", "1", ";", "1", "0", "1">>),
                has_power_curve |-> TRUE,
                power_curve_wind_speeds |-> <<0, 10>>, power_curve_values |-> <<0, 1500>>,
                source |-> "s5"]

\* The rows with the ids in S, in the order of their ids.
TableOf(S) == SelectSeq([i \in 1..NumRows |-> Row(i)], LAMBDA r : r.id \in S)

\* What requests.get(OEDB_URL) can do: fail, or answer with some table.
FetchOutcomes ==
    {[ok |-> FALSE, rows |-> <<>>]} \cup {[ok |-> TRUE, rows |-> TableOf(S)] : S \in SUBSET (1..NumRows)}

DataFrame(rows) == [t |-> "DataFrame", rows |-> rows]

----------------------------------------------------------------------------
(* download_windturbineconfig, step by step. *)

\* as_dict(turbine): the search parameters as a dict. A str that is not all
\* digits reaches re.split("[\s|_]+", s, maxsplit=1), where s is no name of
\* any scope: the call raises NameError.
as_dict(turbine) ==
    CASE turbine.t = "dict" -> Return(turbine)
      [] turbine.t = "int" -> Return(PyDict([k \in {"id"} |-> turbine]))
      [] turbine.t = "str" ->
             IF IsDigit(Strip(turbine.v))
             THEN Return(PyDict([k \in {"id"} |-> PyInt(ParseInt(Strip(turbine.v)))]))
             ELSE Raise("NameError", "name 's' is not defined")
      [] OTHER -> Raise("TypeError", "has an unsupported format")

\* df[df.has_power_curve]
WithPowerCurve(rows) == SelectSeq(rows, LAMBDA r : r.has_power_curve)

\* if turbine.get('id') is not None: df = df[df.id == int(turbine['id'])]
FilterId(df, turbine) ==
    IF Get(turbine, "id").t # "NoneType"
    THEN SelectSeq(df, LAMBDA r : r.id = IntOf(Get(turbine, "id")))
    ELSE df

\* if turbine.get('name'): df = df[df.turbine_type.str.contains(name, case=False)]
FilterName(df, turbine) ==
    IF Truthy(Get(turbine, "name"))
    THEN SelectSeq(df, LAMBDA r : StrContains(r.turbine_type, Get(turbine, "name").v))
    ELSE df

\* if turbine.get('manufacturer'): df = df[df.manufacturer.str.contains(...)]
FilterManufacturer(df, turbine) ==
    IF Truthy(Get(turbine, "manufacturer"))
    THEN SelectSeq(df, LAMBDA r : StrContains(r.manufacturer, Get(turbine, "manufacturer").v))
    ELSE df

\* The three filters, one after the other.
FilterRows(df, turbine) == FilterManufacturer(FilterName(FilterId(df, turbine), turbine), turbine)

\* np.array(json.loads(ds.power_curve_values)) / 1e3, as a list
PowerMW(values) == [i \in 1..Len(values) |-> PyFloat(values[i], 1000)]

\* The dict built from the one row found, before the hub height is looked at.
RawTurbineconf(ds) ==
    [name |-> PyStr(Strip(ds.turbine_type)),
     manufacturer |-> PyStr(Strip(ds.manufacturer)),
     source |-> PyStr(<<"Original: ", ds.source, ". Via OEDB ", OEDB_URL>>),
     HUB_HEIGHT |-> ds.hub_height,
     V |-> PyList(ds.power_curve_wind_speeds),
     POW |-> PyList(PowerMW(ds.power_curve_values))]

DefaultHubHeight == 100

\* if len(hh) > 1: keep the list and take np.mean(hh, dtype=int);
\* else: hh[0]. The result is [outcome, log]: the dict returned or the
\* exception raised, and the warnings logged.
HubHeightOfList(conf, hh, log) ==
    IF Len(hh) > 1
    THEN [outcome |-> Return(PyDict([conf EXCEPT !.HUB_HEIGHT = MeanInt(hh)]
                                    @@ ("HUB_HEIGHTS" :> PyList(hh)))),
          log |-> log \o <<"warning: Multiple HUB_HEIGHTS in dataset.">>]
    ELSE IF Len(hh) = 1
    THEN [outcome |-> Return(PyDict([conf EXCEPT !.HUB_HEIGHT = hh[1]])), log |-> log]
    ELSE [outcome |-> Raise("IndexError", "list index out of range"), log |-> log]

\* hh = [float(t.strip()) for t in ... if t]
HubHeightOfTexts(conf, texts, log) ==
    IF \E i \in 1..Len(texts) : ~IsFloatText(Strip(texts[i]))
    THEN [outcome |-> Raise("ValueError", "could not convert string to float"), log |-> log]
    ELSE HubHeightOfList(conf, [i \in 1..Len(texts) |-> ParseFloat(Strip(texts[i]))], log)

\* if ";" in str(turbineconf['HUB_HEIGHT'])
SplitHubHeight(conf, log) ==
    IF conf.HUB_HEIGHT.t = "str" /\ HasChar(conf.HUB_HEIGHT.v, ";")
    THEN HubHeightOfTexts(conf, HubPieces(conf.HUB_HEIGHT.v), log)
    ELSE [outcome |-> Return(PyDict(conf)), log |-> log]

\* "Other convenience assumptions": if not turbineconf['HUB_HEIGHT'], it is
\* set to 100 with a warning; then a list of heights is averaged.
NormalizeHubHeight(conf) ==
    IF ~Truthy(conf.HUB_HEIGHT)
    THEN SplitHubHeight([conf EXCEPT !.HUB_HEIGHT = PyInt(DefaultHubHeight)],
                        <<"warning: No HUB_HEIGHT defined in dataset.">>)
    ELSE SplitHubHeight(conf, <<>>)

----------------------------------------------------------------------------
(* The operations. Each yields the outcome of the call, the state it leaves *)
(* and the effects of the call in their order ("requests.get", "open r",    *)
(* "open w", "refresh" and the log lines).                                  *)

Result(outcome, cache, wdir, wt, sp, effects) ==
    [outcome |-> outcome, cache |-> cache, wdir |-> wdir, wt |-> wt, sp |-> sp,
     effects |-> effects]

\* A call that ends leaving the directories and dictionaries as they were.
Unchanged(outcome, cache, effects) ==
    Result(outcome, cache, windturbine_dir, windturbines, solarpanels, effects)

\* Mutant of CacheIsEmpty: the cache is never looked at, every lookup fetches.
CacheNeverUsed == TRUE

\* if _oedb_turbines is None
CacheIsEmpty == oedb_turbines.t = "NoneType"

\* with open(filepath, 'w'): yaml.dump(turbineconf, turbine_file)
WriteFile(dir, conf) == (Filename(conf) :> conf) @@ dir

\* _update_resource_dictionaries as the last step of a call that wrote.
Refreshed(outcome, cache, wdir, effects) ==
    Result(outcome, cache, wdir, StemDict(wdir), StemDict(solarpanel_dir), effects)

\* Mutant of StoreLocally: the dictionaries are refreshed before the file is
\* written.
StoreLocallyRefreshFirst(conf, cache, effects) ==
    Result(Return(conf), cache, WriteFile(windturbine_dir, conf),
           StemDict(windturbine_dir), StemDict(solarpanel_dir),
           effects \o <<"refresh", "open w", "info: Turbine configuration downloaded.">>)

\* if store_locally: write the file, then refresh the dictionaries.
StoreLocally(conf, cache, effects) ==
    Refreshed(Return(conf), cache, WriteFile(windturbine_dir, conf),
              effects \o <<"open w", "refresh", "info: Turbine configuration downloaded.">>)

\* The end of download_windturbineconfig for the one row found: n is the
\* normalized dict (or the exception) with its warnings.
StoreAndReturn(n, store_locally, cache, effects) ==
    IF n.outcome.kind = "raise" THEN Unchanged(n.outcome, cache, effects \o n.log)
    ELSE IF store_locally THEN StoreLocally(n.outcome.value, cache, effects \o n.log)
    ELSE Unchanged(n.outcome, cache, effects \o n.log)

\* Mutant of SelectOne: of several rows found, the first is taken.
SelectFirst(df, store_locally, cache, effects) ==
    IF Len(df) < 1
    THEN Unchanged(Return(None), cache, effects \o <<"info: No turbine found.">>)
    ELSE StoreAndReturn(NormalizeHubHeight(RawTurbineconf(df[1])), store_locally, cache,
                        IF Len(df) > 1
                        THEN effects \o <<"info: Provided information corresponds to several turbines.">>
                        ELSE effects)

\* if len(df) < 1 ... elif len(df) > 1 ... elif len(df) == 1: ds = df.iloc[0]
SelectOne(df, store_locally, cache, effects) ==
    IF Len(df) < 1
    THEN Unchanged(Return(None), cache, effects \o <<"info: No turbine found.">>)
    ELSE IF Len(df) > 1
    THEN Unchanged(Return(None), cache,
                   effects \o <<"info: Provided information corresponds to several turbines.">>)
    ELSE StoreAndReturn(NormalizeHubHeight(RawTurbineconf(df[1])), store_locally, cache, effects)

\* The search in the cached table.
Search(turbine, store_locally, cache, effects) ==
    SelectOne(FilterRows(cache.rows, turbine), store_locally, cache,
              effects \o <<"info: Searching turbine power curve in OEDB database.">>)

\* Mutant of FetchAndSearch: a failing requests.get is logged and swallowed,
\* an empty table being cached.
FetchAndSwallow(q, store_locally, net) ==
    IF q.kind = "raise" THEN Unchanged(q, oedb_turbines, <<>>)
    ELSE IF CacheIsEmpty /\ ~net.ok
    THEN Unchanged(Return(None), DataFrame(<<>>),
                   <<"requests.get", "info: Connection to OEDB failed.">>)
    ELSE IF CacheIsEmpty
    THEN Search(q.value, store_locally, DataFrame(WithPowerCurve(net.rows)), <<"requests.get">>)
    ELSE Search(q.value, store_locally, oedb_turbines, <<>>)

\* if _oedb_turbines is None: fetch the table, keep the rows with a power
\* curve; a failing requests.get is logged and raised again.
FetchAndSearch(q, store_locally, net) ==
    IF q.kind = "raise" THEN Unchanged(q, oedb_turbines, <<>>)
    ELSE IF CacheIsEmpty /\ ~net.ok
    THEN Unchanged(Raise("ConnectionError", "requests.get failed"), oedb_turbines,
                   <<"requests.get", "info: Connection to OEDB failed.">>)
    ELSE IF CacheIsEmpty
    THEN Search(q.value, store_locally, DataFrame(WithPowerCurve(net.rows)), <<"requests.get">>)
    ELSE Search(q.value, store_locally, oedb_turbines, <<>>)

\* Resources.download_windturbineconfig(turbine, store_locally), where net is
\* what requests.get does if it is called.
download_windturbineconfig(turbine, store_locally, net) ==
    FetchAndSearch(as_dict(turbine), store_locally, net)

\* read_windturbineconfig(turbine): open and yaml.safe_load the file.
read_windturbineconfig(name) ==
    IF name \o YamlSuffix \notin DOMAIN windturbine_dir
    THEN Unchanged(Raise("FileNotFoundError", "No such file or directory"), oedb_turbines,
                   <<"open r">>)
    ELSE IF ~SafeLoadable(windturbine_dir[name \o YamlSuffix])
    THEN Unchanged(Raise("ConstructorError", "could not determine a constructor"),
                   oedb_turbines, <<"open r">>)
    ELSE Unchanged(Return(windturbine_dir[name \o YamlSuffix]), oedb_turbines, <<"open r">>)

OedbPrefix == <<"o", "e", "d", "b", ":">>

oedb == PyStr(<<"o", "e", "d", "b">>)

local == PyStr(<<"l", "o", "c", "a", "l">>)

\* if turbine.get('source') is None: turbine['source'] = 'oedb'
DefaultSource(turbine) ==
    IF Get(turbine, "source").t = "NoneType"
    THEN PyDict(("source" :> oedb) @@ turbine.v)
    ELSE turbine

\* Mutant of BySource: a source that is not 'local' is taken for 'oedb'.
BySourceOrOedb(turbine, net, warn) ==
    IF turbine.v["source"] = local
    THEN IF "filename" \in DOMAIN turbine.v
         THEN [read_windturbineconfig(turbine.v["filename"].v) EXCEPT !.effects = warn \o @]
         ELSE Unchanged(Raise("KeyError", "filename"), oedb_turbines, warn)
    ELSE [FetchAndSearch(Return(turbine), FALSE, net) EXCEPT !.effects = warn \o @]

\* The dict branch of as_turbineconfig, the source being set.
BySource(turbine, net, warn) ==
    IF turbine.v["source"] = oedb
    THEN [download_windturbineconfig(turbine, FALSE, net) EXCEPT !.effects = warn \o @]
    ELSE IF turbine.v["source"] = local
    THEN IF "filename" \in DOMAIN turbine.v
         THEN [read_windturbineconfig(turbine.v["filename"].v) EXCEPT !.effects = warn \o @]
         ELSE Unchanged(Raise("KeyError", "filename"), oedb_turbines, warn)
    ELSE Unchanged(Raise("ValueError", "`source` should be either 'oedb' or 'local'"),
                   oedb_turbines, warn)

\* as_turbineconfig(turbine) of get_windturbineconfig
as_turbineconfig(turbine, net) ==
    CASE turbine.t = "str" ->
             IF StartsWith(turbine.v, OedbPrefix)
             THEN download_windturbineconfig(
                      PyStr(SubSeq(turbine.v, Len(OedbPrefix) + 1, Len(turbine.v))), FALSE, net)
             ELSE read_windturbineconfig(turbine.v)
      [] turbine.t = "dict" ->
             BySource(DefaultSource(turbine), net,
                      IF Get(turbine, "source").t = "NoneType"
                      THEN <<"warning: No key 'source' provided. Assuming 'oedb'.">>
                      ELSE <<>>)
      [] OTHER ->
             Unchanged(Raise("ValueError", "No matching turbine configuration found."),
                       oedb_turbines, <<>>)

\* np.max(POW) of a non-empty list of floats
RECURSIVE MaxFloat(_)
MaxFloat(pow) ==
    IF Len(pow) = 1 THEN pow[1]
    ELSE LET m == MaxFloat(Tail(pow))
         IN  IF pow[1].num * m.den >= m.num * pow[1].den THEN pow[1] ELSE m

\* itemgetter('V', 'POW', 'HUB_HEIGHT')(turbineconf) and the dict returned.
Itemgetter(conf) ==
    IF conf.t = "NoneType"
    THEN Raise("TypeError", "'NoneType' object is not subscriptable")
    ELSE IF ~({"V", "POW", "HUB_HEIGHT"} \subseteq DOMAIN conf.v)
    THEN Raise("KeyError", "V, POW or HUB_HEIGHT")
    ELSE IF Len(conf.v["POW"].v) = 0
    THEN Raise("ValueError", "zero-size array to reduction operation maximum")
    ELSE Return(PyDict([V |-> conf.v["V"], POW |-> conf.v["POW"],
                        hub_height |-> conf.v["HUB_HEIGHT"],
                        P |-> MaxFloat(conf.v["POW"].v)]))

\* The lines of get_windturbineconfig after turbineconf = as_turbineconfig(turbine).
GetFrom(r) == IF r.outcome.kind = "raise" THEN r ELSE [r EXCEPT !.outcome = Itemgetter(@.value)]

\* Resources.get_windturbineconfig(turbine)
get_windturbineconfig(turbine, net) == GetFrom(as_turbineconfig(turbine, net))

\* Resources.get_solarpanelconfig(panel): open(res_name, "r") names a
\* variable no scope defines (the path is bound to `path`): NameError, before
\* any file is opened.
get_solarpanelconfig(panel) ==
    Unchanged(Raise("NameError", "name 'res_name' is not defined"), oedb_turbines, <<>>)

----------------------------------------------------------------------------
(* The arguments the calls are made with. *)

\* dict(id=..., name=..., manufacturer=...), a key being left out for None.
Query(id, name, manufacturer) ==
    LET given == [id |-> id, name |-> name, manufacturer |-> manufacturer]
    IN  PyDict([k \in {j \in {"id", "name", "manufacturer"} : given[j].t # "NoneType"} |-> given[k]])

\* The query with a 'source' key added.
WithSource(q, source) == PyDict(("source" :> source) @@ q.v)

QueryIds == {None, PyInt(1), PyStr(<<"2">>)}

QueryNames == {None, PyStr(<<"e">>), PyStr(<<"E", ".", "5">>), PyStr(<<"v">>), PyStr(<<"-", "5">>)}

QueryManufacturers == {None, PyStr(<<"a", "c">>), PyStr(<<"c", " ">>)}

Queries == {Query(i, n, m) : i \in QueryIds, n \in QueryNames, m \in QueryManufacturers}

StrArgs == {PyStr(<<" ", "1", " ">>), PyStr(<<"A", "c", " ", "E", "-", "5">>), PyStr(<<"E", "-", "5">>)}

DownloadArgs == Queries \cup {PyInt(9)} \cup StrArgs \cup {PyList(<<>>)}

\* Names of local files: one that exists from the start, one that never
\* does, and the ones Row(1) and Row(2) are stored under.
LocalNames ==
    {<<"t", "1">>, <<"z">>, <<"A", "c", "_", "E", "_", "5">>, <<"a", "c", "_", "e", "_", "5">>}

GetArgs ==
    {PyStr(OedbPrefix \o a.v) : a \in StrArgs}
    \cup {PyStr(n) : n \in LocalNames}
    \cup {Query(PyInt(1), None, None), Query(None, PyStr(<<"e">>), None)}
    \cup {WithSource(q, oedb) :
             q \in {Query(PyInt(1), None, None), Query(None, PyStr(<<"e">>), None),
                    Query(None, PyStr(<<"v">>), None)}}
    \cup {PyDict([source |-> local, filename |-> PyStr(<<"t", "1">>)]), PyDict([source |-> local])}
    \cup {WithSource(Query(PyInt(1), None, None), PyStr(<<"w", "e", "b">>)),
          PyDict([source |-> PyStr(<<"O", "E", "D", "B">>)]), PyDict([source |-> PyInt(1)])}
    \cup {PyInt(1), PyList(<<>>), None}

PanelArgs == {PyStr(<<"p", "1">>), PyStr(<<"z">>)}

\* requests.get is called only when the cache is empty.
Network == IF CacheIsEmpty THEN FetchOutcomes ELSE {[ok |-> TRUE, rows |-> <<>>]}

----------------------------------------------------------------------------
(* The state machine. *)

LocalTurbine ==
    PyDict([V |-> PyList(<<0, 10>>), POW |-> PyList(<<PyFloat(0, 1), PyFloat(2, 1)>>),
            HUB_HEIGHT |-> PyInt(80)])

LocalPanel == PyDict([model |-> PyStr(<<"h", "u", "l", "d">>), efficiency |-> PyFloat(1, 10)])

\* Resources.__init__: the dictionaries are filled once from the directories.
Init ==
    /\ oedb_turbines = None
    /\ windturbine_dir = (<<"t", "1">> \o YamlSuffix :> LocalTurbine) @@ (<<"n", ".", "t", "x", "t">> :> None)
    /\ solarpanel_dir = (<<"p", "1">> \o YamlSuffix :> LocalPanel)
    /\ windturbines = StemDict(windturbine_dir)
    /\ solarpanels = StemDict(solarpanel_dir)
    /\ last = [op |-> "__init__", arg |-> None, store_locally |-> FALSE,
               outcome |-> Return(None), effects |-> <<"refresh">>]

\* A call ends: the state it leaves and what the caller saw.
Apply(op, arg, store, r) ==
    /\ oedb_turbines' = r.cache
    /\ windturbine_dir' = r.wdir
    /\ windturbines' = r.wt
    /\ solarpanels' = r.sp
    /\ UNCHANGED solarpanel_dir
    /\ last' = [op |-> op, arg |-> arg, store_locally |-> store,
                outcome |-> r.outcome, effects |-> r.effects]

DownloadWindturbineconfig ==
    \E turbine \in DownloadArgs, store_locally \in BOOLEAN, net \in Network :
        Apply("download_windturbineconfig", turbine, store_locally,
              download_windturbineconfig(turbine, store_locally, net))

GetWindturbineconfig ==
    \E turbine \in GetArgs, net \in Network :
        Apply("get_windturbineconfig", turbine, FALSE, get_windturbineconfig(turbine, net))

GetSolarpanelconfig ==
    \E panel \in PanelArgs :
        Apply("get_solarpanelconfig", panel, FALSE, get_solarpanelconfig(panel))

\* Resources._update_resource_dictionaries, called by the configuration's
\* update hook.
UpdateResourceDictionaries ==
    Apply("_update_resource_dictionaries", None, FALSE,
          Refreshed(Return(None), oedb_turbines, windturbine_dir, <<"refresh">>))

Next ==
    \/ DownloadWindturbineconfig
    \/ GetWindturbineconfig
    \/ GetSolarpanelconfig
    \/ UpdateResourceDictionaries

Spec == Init /\ [][Next]_vars

----------------------------------------------------------------------------
(* What the claims speak of. *)

\* x is among the effects e
Has(e, x) == \E i \in 1..Len(e) : e[i] = x

\* how often x is among the effects e
Count(e, x) == Cardinality({i \in 1..Len(e) : e[i] = x})

IsDownload(l) == l.op = "download_windturbineconfig"

IsGet(l) == l.op = "get_windturbineconfig"

ReturnedDict(l) == l.outcome.kind = "return" /\ l.outcome.value.t = "dict"

ReturnedNone(l) == l.outcome.kind = "return" /\ l.outcome.value.t = "NoneType"

Raised(l, exc) == l.outcome.kind = "raise" /\ l.outcome.exc = exc

NotFoundLogged(l) == Has(l.effects, "info: No turbine found.")

AmbiguousLogged(l) == Has(l.effects, "info: Provided information corresponds to several turbines.")

\* The call searched the table (it got past as_dict and the fetch).
Searched(l) == Has(l.effects, "info: Searching turbine power curve in OEDB database.")

\* The text after the marker of an 'oedb:' string.
AfterMarker(arg) == PyStr(SubSeq(arg.v, Len(OedbPrefix) + 1, Len(arg.v)))

IsMarked(arg) == arg.t = "str" /\ StartsWith(arg.v, OedbPrefix)

\* The call is a lookup in the remote table: its argument is a query, or a
\* text or number that makes one.
RemoteLookup(l) ==
    \/ IsDownload(l) /\ as_dict(l.arg).kind = "return"
    \/ IsGet(l) /\ l.arg.t = "dict" /\ DefaultSource(l.arg).v["source"] = oedb
    \/ IsGet(l) /\ IsMarked(l.arg) /\ as_dict(AfterMarker(l.arg)).kind = "return"

FrameUnchanged == UNCHANGED <<windturbine_dir, solarpanel_dir, windturbines, solarpanels>>

----------------------------------------------------------------------------
\* C1: once a fetch has filled the cache, no later call fetches again and no
\* call changes the cached table, whether it finds no row, one or several.
C1_CacheFilledOnce ==
    [][oedb_turbines.t = "DataFrame"
          => oedb_turbines' = oedb_turbines /\ ~Has(last'.effects, "requests.get")]_vars

\* A lookup that found no row in a cache filled by an earlier call.
C1_Witness ==
    /\ oedb_turbines.t = "DataFrame"
    /\ IsDownload(last) /\ NotFoundLogged(last) /\ ReturnedNone(last)
    /\ ~Has(last.effects, "requests.get")

----------------------------------------------------------------------------
\* C2: a fetch that fails while the cache is empty is raised to the caller
\* after one request, leaves the cache empty and the directories and
\* dictionaries as they were, writes no file; and as long as the cache is
\* empty, a remote lookup issues a request.
C2_FetchFailure ==
    [][/\ Has(last'.effects, "info: Connection to OEDB failed.")
            => /\ oedb_turbines.t = "NoneType"
               /\ Raised(last', "ConnectionError")
               /\ oedb_turbines'.t = "NoneType"
               /\ FrameUnchanged
               /\ Count(last'.effects, "requests.get") = 1
               /\ ~Has(last'.effects, "open w")
       /\ (oedb_turbines.t = "NoneType" /\ RemoteLookup(last'))
            => Count(last'.effects, "requests.get") = 1]_vars

\* A remote lookup whose request failed.
C2_Witness ==
    /\ RemoteLookup(last) /\ Raised(last, "ConnectionError")
    /\ oedb_turbines.t = "NoneType"
    /\ last.effects = <<"requests.get", "info: Connection to OEDB failed.">>

----------------------------------------------------------------------------
\* C3: the resolver applies the filters that are present conjunctively (id
\* exact; name and manufacturer as case-insensitive substrings of the type
\* name and of the manufacturer) and the number of rows passing them all
\* decides: none gives NotFound, several give Ambiguous, one gives the record
\* built from that row.

\* pat is, letter case aside, a substring of hay.
ContainsText(hay, pat) ==
    \E i \in 1..(Len(hay) + 1) :
        /\ i + Len(pat) - 1 <= Len(hay)
        /\ \A j \in 1..Len(pat) : Lower(pat[j]) = Lower(hay[i + j - 1])

PassesFilters(r, q) ==
    /\ Get(q, "id").t # "NoneType" => r.id = IntOf(Get(q, "id"))
    /\ Get(q, "name").t # "NoneType" => ContainsText(r.turbine_type, Get(q, "name").v)
    /\ Get(q, "manufacturer").t # "NoneType"
           => ContainsText(r.manufacturer, Get(q, "manufacturer").v)

RowsPassing(rows, q) == SelectSeq(rows, LAMBDA r : PassesFilters(r, q))

OutcomeByCount(l, rows) ==
    /\ Len(rows) = 0 => ReturnedNone(l) /\ NotFoundLogged(l)
    /\ Len(rows) > 1 => ReturnedNone(l) /\ AmbiguousLogged(l)
    /\ Len(rows) = 1 => l.outcome = NormalizeHubHeight(RawTurbineconf(rows[1])).outcome

C3_OutcomeBySubstringCount ==
    (IsDownload(last) /\ Searched(last))
        => OutcomeByCount(last, RowsPassing(oedb_turbines.rows, as_dict(last.arg).value))

----------------------------------------------------------------------------
\* C4: when the query matches more than one row, download_windturbineconfig
\* returns no result, writes no file and neither refreshes nor changes the
\* dictionaries of known names, also with store_locally set.
C4_AmbiguousWritesNothing ==
    [][(/\ IsDownload(last') /\ Searched(last')
        /\ Len(FilterRows(oedb_turbines'.rows, as_dict(last'.arg).value)) > 1)
           => /\ ReturnedNone(last') /\ AmbiguousLogged(last')
              /\ FrameUnchanged
              /\ ~Has(last'.effects, "open w") /\ ~Has(last'.effects, "refresh")]_vars

\* An ambiguous query with store_locally set.
C4_Witness ==
    /\ IsDownload(last) /\ last.store_locally /\ Searched(last)
    /\ Len(FilterRows(oedb_turbines.rows, as_dict(last.arg).value)) > 1
    /\ ReturnedNone(last)

----------------------------------------------------------------------------
\* C5: get_windturbineconfig, given a remote specification whose query
\* matches no row or more than one, raises nothing: it ends with a no-result
\* outcome.
C5_NoResultIsNotRaised ==
    (IsGet(last) /\ RemoteLookup(last) /\ (NotFoundLogged(last) \/ AmbiguousLogged(last)))
        => last.outcome.kind = "return"

----------------------------------------------------------------------------
\* C6: get_windturbineconfig raises the error of an invalid source for every
\* dict whose declared source is neither 'oedb' nor 'local', and the error of
\* an unsupported specification for every argument that is neither str nor
\* dict; either way without a request, without reading a file, and leaving
\* the cache, the directories and the dictionaries as they were.
InvalidSource(arg) ==
    /\ arg.t = "dict"
    /\ Get(arg, "source").t # "NoneType"
    /\ Get(arg, "source") # oedb /\ Get(arg, "source") # local

Unsupported(arg) == arg.t # "str" /\ arg.t # "dict"

C6_HardFailureNoFallback ==
    [][/\ (IsGet(last') /\ InvalidSource(last'.arg))
            => /\ last'.outcome = Raise("ValueError", "`source` should be either 'oedb' or 'local'")
               /\ last'.effects = <<>>
               /\ UNCHANGED oedb_turbines /\ FrameUnchanged
       /\ (IsGet(last') /\ Unsupported(last'.arg))
            => /\ last'.outcome = Raise("ValueError", "No matching turbine configuration found.")
               /\ last'.effects = <<>>
               /\ UNCHANGED oedb_turbines /\ FrameUnchanged]_vars

\* A dict with an invalid source, given while the cache is filled and a
\* query of the same dict would find a row.
C6_Witness ==
    /\ IsGet(last) /\ InvalidSource(last.arg)
    /\ oedb_turbines.t = "DataFrame"
    /\ Len(FilterRows(oedb_turbines.rows, last.arg)) = 1
    /\ last.outcome.kind = "raise"

----------------------------------------------------------------------------
\* C7: for a string with the marker 'oedb:', get_windturbineconfig strips the
\* marker and makes the query of the text left: digits only, a query by id;
\* else the text is split at the first run of whitespace, underscores and
\* pipes, one token being a query by name, two a query by manufacturer and
\* name; the query is resolved in the table and no file is written.
IsSeparator(c) == c \in {" ", "_", "|"}

\* re.split("[\s|_]+", text, maxsplit=1)
SplitOnce(text) ==
    IF \A i \in 1..Len(text) : ~IsSeparator(text[i]) THEN <<text>>
    ELSE LET a == CHOOSE i \in 1..Len(text) :
                      IsSeparator(text[i]) /\ \A k \in 1..(i - 1) : ~IsSeparator(text[k])
             b == CHOOSE i \in a..Len(text) :
                      /\ \A k \in a..i : IsSeparator(text[k])
                      /\ i = Len(text) \/ ~IsSeparator(text[i + 1])
         IN  <<SubSeq(text, 1, a - 1), SubSeq(text, b + 1, Len(text))>>

QueryOfTokens(m) ==
    IF Len(m) = 1 THEN Query(None, PyStr(m[1]), None)
    ELSE Query(None, PyStr(m[2]), PyStr(m[1]))

QueryOfText(text) ==
    IF IsDigit(Strip(text)) THEN Query(PyInt(ParseInt(Strip(text))), None, None)
    ELSE QueryOfTokens(SplitOnce(Strip(text)))

C7_MarkedStringIsQueried ==
    (IsGet(last) /\ IsMarked(last.arg) /\ oedb_turbines.t = "DataFrame")
        => /\ last.outcome =
                  GetFrom(Search(QueryOfText(AfterMarker(last.arg).v), FALSE, oedb_turbines, <<>>)).outcome
           /\ ~Has(last.effects, "open w")

----------------------------------------------------------------------------
\* C8: when the query matches one row and store_locally is set, on return
\* the record is in the local directory under the name made of manufacturer
\* and name with "/", " " and "-" replaced by "_", that name is among the
\* known turbine names, and the dictionaries were refreshed after the write,
\* not before.
Replaced(s) == [i \in 1..Len(s) |-> IF s[i] = "/" \/ s[i] = " " \/ s[i] = "-" THEN "_" ELSE s[i]]

StoredName(conf) == Replaced(conf.v["manufacturer"].v) \o <<"_">> \o Replaced(conf.v["name"].v)

WriteThenRefresh(e) ==
    /\ Count(e, "open w") = 1 /\ Count(e, "refresh") = 1
    /\ \E i \in 1..Len(e) : \E j \in (i + 1)..Len(e) : e[i] = "open w" /\ e[j] = "refresh"

C8_StoredThenKnown ==
    (IsDownload(last) /\ last.store_locally /\ ReturnedDict(last))
        => /\ StoredName(last.outcome.value) \o YamlSuffix \in DOMAIN windturbine_dir
           /\ windturbine_dir[StoredName(last.outcome.value) \o YamlSuffix] = last.outcome.value
           /\ StoredName(last.outcome.value) \in DOMAIN windturbines
           /\ WriteThenRefresh(last.effects)

\* A record stored under a name in which "-" was replaced.
C8_Witness ==
    /\ IsDownload(last) /\ last.store_locally /\ ReturnedDict(last)
    /\ Has(last.outcome.value.v["name"].v, "-")
    /\ StoredName(last.outcome.value) \in DOMAIN windturbines

----------------------------------------------------------------------------
\* C9: the hub height of the record: for a row without one it is 100, with a
\* warning; for a row with a list of more than one non-empty entry the
\* parsed values are all kept and the hub height is their mean rounded to
\* an integer (up or down), with a warning.

\* The row the record was built from.
RowOf(conf, rows) ==
    CHOOSE i \in 1..Len(rows) :
        /\ Strip(rows[i].turbine_type) = conf.v["name"].v
        /\ Strip(rows[i].manufacturer) = conf.v["manufacturer"].v

RECURSIVE DenProduct(_)
DenProduct(hh) == IF hh = <<>> THEN 1 ELSE Head(hh).den * DenProduct(Tail(hh))

\* The sum of the values, in units of 1 / d.
RECURSIVE ScaledSum(_, _)
ScaledSum(hh, d) ==
    IF hh = <<>> THEN 0 ELSE Head(hh).num * (d \div Head(hh).den) + ScaledSum(Tail(hh), d)

Abs(x) == IF x < 0 THEN -x ELSE x

\* v is the mean of hh rounded to an integer, whichever way it is rounded:
\* an integer less than 1 away from the mean.
IsRoundedMean(v, hh) ==
    Abs(v * Len(hh) * DenProduct(hh) - ScaledSum(hh, DenProduct(hh)))
        < Len(hh) * DenProduct(hh)

ParsedHeights(text) ==
    [i \in 1..Len(HubPieces(text)) |-> ParseFloat(Strip(HubPieces(text)[i]))]

HubHeightAsClaimed(conf, hub, effects) ==
    /\ hub.t = "NoneType"
           => /\ conf.v["HUB_HEIGHT"] = PyInt(100)
              /\ Has(effects, "warning: No HUB_HEIGHT defined in dataset.")
    /\ (hub.t = "str" /\ Len(HubPieces(hub.v)) > 1)
           => /\ "HUB_HEIGHTS" \in DOMAIN conf.v
              /\ conf.v["HUB_HEIGHTS"] = PyList(ParsedHeights(hub.v))
              /\ IsRoundedMean(conf.v["HUB_HEIGHT"].v, ParsedHeights(hub.v))
              /\ Has(effects, "warning: Multiple HUB_HEIGHTS in dataset.")

C9_HubHeightRoundedMean ==
    (IsDownload(last) /\ ReturnedDict(last))
        => HubHeightAsClaimed(last.outcome.value,
                              oedb_turbines.rows[RowOf(last.outcome.value, oedb_turbines.rows)].hub_height,
                              last.effects)

----------------------------------------------------------------------------
\* C10: get_solarpanelconfig reads the local panel directory only: for a
\* panel that is there it returns the stored record, for one that is not it
\* fails as not found, and it neither fetches nor reads the cache.
C10_PanelReadLocally ==
    last.op = "get_solarpanelconfig"
        => /\ last.arg.v \o YamlSuffix \in DOMAIN solarpanel_dir
                 => last.outcome = Return(solarpanel_dir[last.arg.v \o YamlSuffix])
           /\ last.arg.v \o YamlSuffix \notin DOMAIN solarpanel_dir
                 => Raised(last, "FileNotFoundError")
           /\ ~Has(last.effects, "requests.get")

====
